---- MODULE Spec2Model ----
(***************************************************************************)
(* The two request handlers of the transcription endpoint:                 *)
(*   "stream"   - src/api/hello.ts      (ytdl stream into a temp file)     *)
(*   "redirect" - src/unnamed/part_000  (audio URL service + download)     *)
(* One request is followed from its arrival to its response.  JavaScript   *)
(* strings whose characters matter (ids, URLs, titles, segment texts, the  *)
(* formatted transcript) are tuples of one-character strings.  Times are   *)
(* fixed-point numbers: an integer count of thousandths of a second.       *)
(***************************************************************************)
EXTENDS Integers, Sequences, FiniteSets, TLC

(***************************************************************************)
(* JavaScript values                                                       *)
(***************************************************************************)
Undefined == <<"undefined">>
Null == <<"null">>
\* !x for a string-or-missing value
Falsy(x) == x = Undefined \/ x = Null \/ x = <<>>

Min(S) == CHOOSE x \in S : \A y \in S : x <= y
Max(S) == CHOOSE x \in S : \A y \in S : x >= y

(***************************************************************************)
(* Character classes of the regular expression                             *)
(***************************************************************************)
Lower == {"a","b","c","d","e","f","g","h","i","j","k","l","m","n","o","p","q","r","s","t","u","v","w","x","y","z"}
Upper == {"A","B","C","D","E","F","G","H","I","J","K","L","M","N","O","P","Q","R","S","T","U","V","W","X","Y","Z"}
Digit == {"0","1","2","3","4","5","6","7","8","9"}
\* [a-zA-Z0-9_-]
IdChar == Lower \cup Upper \cup Digit \cup {"_", "-"}
\* \s
Space == {" ", "\t", "\n", "\r", "\f"}
\* \S
NonSpace(c) == c \notin Space
\* [^\/\n\s]
NonSlash(c) == c # "/" /\ c \notin Space

\* {11}
IdLen == 11

YoutubeCom == <<"y","o","u","t","u","b","e",".","c","o","m","/">>
YoutuBe == <<"y","o","u","t","u",".","b","e","/">>

\* the literal lit occurs in s at position i
LitAt(s, i, lit) ==
  /\ i >= 1
  /\ i + Len(lit) - 1 <= Len(s)
  /\ SubSeq(s, i, i + Len(lit) - 1) = lit

\* ([a-zA-Z0-9_-]{11}) matches in s at position p
IdAt(s, p) ==
  /\ p >= 1
  /\ p + IdLen - 1 <= Len(s)
  /\ \A k \in p..(p + IdLen - 1) : s[k] \in IdChar

(***************************************************************************)
(* The three alternatives after "youtube.com/", each giving the set of     *)
(* positions where the captured group can start when the alternative is    *)
(* entered at position q, and the one the backtracking matcher takes.      *)
(***************************************************************************)
\* [^\/\n\s]+\/\S+\/   (both + are greedy: the longest runs are tried first)
Alt1Ends(s, q) ==
  { p \in (q + 4)..Len(s) :
      \E a \in 1..(p - q - 3) :
        /\ \A k \in q..(q + a - 1) : NonSlash(s[k])
        /\ s[q + a] = "/"
        /\ \A k \in (q + a + 1)..(p - 2) : NonSpace(s[k])
        /\ s[p - 1] = "/"
        /\ IdAt(s, p) }
Alt1(s, q) == IF Alt1Ends(s, q) = {} THEN 0 ELSE Max(Alt1Ends(s, q))

\* (?:v|e(?:mbed)?)\/
Alt2(s, q) ==
  IF LitAt(s, q, <<"v","/">>) /\ IdAt(s, q + 2) THEN q + 2
  ELSE IF LitAt(s, q, <<"e","m","b","e","d","/">>) /\ IdAt(s, q + 6) THEN q + 6
  ELSE IF LitAt(s, q, <<"e","/">>) /\ IdAt(s, q + 2) THEN q + 2
  ELSE 0

\* \S*?[?&]v=   (the *? is lazy: the shortest run is tried first)
Alt3Ends(s, q) ==
  { p \in (q + 3)..Len(s) :
      /\ \A k \in q..(p - 4) : NonSpace(s[k])
      /\ s[p - 3] \in {"?", "&"}
      /\ s[p - 2] = "v"
      /\ s[p - 1] = "="
      /\ IdAt(s, p) }
Alt3(s, q) == IF Alt3Ends(s, q) = {} THEN 0 ELSE Min(Alt3Ends(s, q))

\* where the group is captured when the whole pattern is tried at position i
\* (0: no match at i); alternatives are tried left to right
MatchAt(s, i) ==
  IF LitAt(s, i, YoutubeCom)
  THEN LET q == i + Len(YoutubeCom) IN
       IF Alt1(s, q) # 0 THEN Alt1(s, q)
       ELSE IF Alt2(s, q) # 0 THEN Alt2(s, q)
       ELSE Alt3(s, q)
  ELSE IF LitAt(s, i, YoutuBe) /\ IdAt(s, i + Len(YoutuBe))
  THEN i + Len(YoutuBe)
  ELSE 0

\* url.match(regex): the leftmost position with a match decides
extractYouTubeId(url) ==
  LET hits == { i \in 1..Len(url) : MatchAt(url, i) # 0 } IN
  IF hits = {} THEN Null
  ELSE LET p == MatchAt(url, Min(hits)) IN SubSeq(url, p, p + IdLen - 1)

(***************************************************************************)
(* formatTime                                                              *)
(***************************************************************************)
\* Number.prototype.toString for a non-negative integer
RECURSIVE toString(_)
toString(n) ==
  LET d == <<"0","1","2","3","4","5","6","7","8","9">>[(n % 10) + 1] IN
  IF n < 10 THEN <<d>> ELSE Append(toString(n \div 10), d)

\* String.prototype.padStart(targetLength, ch): pads, never truncates
RECURSIVE padStart(_, _, _)
padStart(s, targetLength, ch) ==
  IF Len(s) >= targetLength THEN s ELSE padStart(<<ch>> \o s, targetLength, ch)

\* Math.floor(x / d), x a fixed-point time, d whole seconds
FloorDiv(x, d) == x \div (d * 1000)
\* x % d, a fixed-point time again
FMod(x, d) == x % (d * 1000)

\* as formatTime, but the seconds are rounded instead of floored
formatTimeRounded(seconds) ==
  LET hrs == FloorDiv(seconds, 3600)
      mins == FloorDiv(FMod(seconds, 3600), 60)
      secs == FloorDiv(FMod(seconds, 60) + 500, 1)
  IN padStart(toString(hrs), 2, "0") \o <<":">>
       \o padStart(toString(mins), 2, "0") \o <<":">>
       \o padStart(toString(secs), 2, "0")

formatTime(seconds) ==
  LET hrs == FloorDiv(seconds, 3600)
      mins == FloorDiv(FMod(seconds, 3600), 60)
      secs == FloorDiv(FMod(seconds, 60), 1)
  IN padStart(toString(hrs), 2, "0") \o <<":">>
       \o padStart(toString(mins), 2, "0") \o <<":">>
       \o padStart(toString(secs), 2, "0")

\* `[${formatTime(segment.start)} - ${formatTime(segment.end)}] ${segment.text}`
renderSegment(segment) ==
  <<"[">> \o formatTime(segment.start) \o <<" ","-"," ">>
    \o formatTime(segment.end) \o <<"]"," ">> \o segment.text

\* Array.prototype.map
RECURSIVE mapRender(_)
mapRender(segments) ==
  IF segments = <<>> THEN <<>>
  ELSE <<renderSegment(Head(segments))>> \o mapRender(Tail(segments))

\* as join, but the separator also follows the last part
RECURSIVE joinTrailing(_, _)
joinTrailing(parts, sep) ==
  IF parts = <<>> THEN <<>>
  ELSE parts[1] \o sep \o joinTrailing(Tail(parts), sep)

\* Array.prototype.join(sep)
RECURSIVE join(_, _)
join(parts, sep) ==
  IF parts = <<>> THEN <<>>
  ELSE IF Len(parts) = 1 THEN parts[1]
  ELSE parts[1] \o sep \o join(Tail(parts), sep)

\* as formatTranscript, but formattedTranscript has no initial value
formatTranscriptNoDefault(transcription) ==
  IF "segments" \notin DOMAIN transcription THEN Undefined
  ELSE join(mapRender(transcription.segments), <<"\n","\n">>)

\* let formattedTranscript = ''; if (transcription.segments) { ...map...join('\n\n') }
formatTranscript(transcription) ==
  IF "segments" \notin DOMAIN transcription THEN <<>>
  ELSE join(mapRender(transcription.segments), <<"\n","\n">>)

(***************************************************************************)
(* Inputs: requests and what the external services can answer              *)
(***************************************************************************)
IdX == <<"d","Q","w","4","w","9","W","g","X","c","Q">>
\* a non-empty id parameter that is no video id
IdShort == <<"a","b","c">>
Https == <<"h","t","t","p","s",":","/","/">>
Www == <<"w","w","w",".">>
\* `https://www.youtube.com/watch?v=${videoId}`
standardUrl(id) == Https \o Www \o YoutubeCom \o <<"w","a","t","c","h","?","v","=">> \o id

TrailT == <<"&","t","=","1","0">>
TrailPath == <<"/","r","e","l","a","t","e","d","-","v","i","d","e","o","s">>
TrailNext == <<"&","n","e","x","t","=","/","a","/","r","e","l","a","t","e","d","-","v","i","d","e","o","s">>

\* the URL shapes of a video page, each with its id token
ShapeWatch(id) == standardUrl(id)
ShapeWatchLater(id) ==
  Https \o Www \o YoutubeCom
    \o <<"w","a","t","c","h","?","f","e","a","t","u","r","e","=","s","h","a","r","e","&","v","=">> \o id
ShapeShort(id) == Https \o YoutuBe \o id
ShapeEmbed(id) == Https \o Www \o YoutubeCom \o <<"e","m","b","e","d","/">> \o id
ShapeV(id) == Https \o Www \o YoutubeCom \o <<"v","/">> \o id
KnownShapes(id) ==
  { ShapeWatch(id), ShapeWatchLater(id), ShapeShort(id), ShapeEmbed(id), ShapeV(id) }
\* what may follow the id token: nothing, a query parameter, a path segment
Trailers == { <<>>, TrailT, TrailPath, TrailNext }
KnownUrls(id) == { u \o t : u \in KnownShapes(id), t \in Trailers }

NotAVideoUrl == Https \o <<"e","x","a","m","p","l","e",".","c","o","m","/">>

Methods == { "GET", "POST" }
IdParams == { Undefined, <<>>, IdX, IdShort }
UrlParams == { Undefined, <<>>, NotAVideoUrl } \cup KnownUrls(IdX)

Title == <<"N","e","v","e","r"," ","G","o","n","n","a">>
TextA == <<" ","H","i">>
TextB == <<" ","a","\n","b">>
FullText == <<" ","H","i"," ","a","\n","b">>

\* longest segment list the transcription service is taken to answer with
MaxSegs == 2

\* segment boundaries the service may report, in thousandths of a second
TimePoints ==
  << 0, 2500, 59999, 60000, 3599999, 3600000, 3661700, 86399999,
     359999999, 360000000, 360000001, 445323456 >>

\* n chronological segments starting at boundary k
Segments(k, n) ==
  [ i \in 1..n |->
      [ start |-> TimePoints[k + i - 1],
        end |-> TimePoints[k + i],
        text |-> IF (k + i) % 2 = 0 THEN TextA ELSE TextB ] ]

SegmentLists ==
  { Segments(k, n) : k \in 1..(Len(TimePoints) - MaxSegs), n \in 0..MaxSegs }

\* bodies of a successful answer of the transcription service (verbose_json)
Transcriptions ==
  { [ text |-> FullText ] } \cup { [ text |-> FullText, segments |-> l ] : l \in SegmentLists }

\* statuses for which response.ok is false
BadStatus == { 403, 500 }
ErrorTexts == { "", "quota exceeded" }

\* an Error: message = msg, then the status when there is one, then text
Err(stage, msg, status, text) ==
  [ stage |-> stage, msg |-> msg, status |-> status, text |-> text ]
\* what a rejected await throws: an Error with a message, or one without
Rejections(stage) ==
  { Err(stage, "network error", 0, ""), Err(stage, "", 0, "") }
NoError == Err("none", "", 0, "")

\* error.message || 'An unknown error occurred'
errorMessage(e) ==
  IF e.msg = "" /\ e.status = 0 /\ e.text = ""
  THEN [ msg |-> "An unknown error occurred", status |-> 0, text |-> "" ]
  ELSE [ msg |-> e.msg, status |-> e.status, text |-> e.text ]

(***************************************************************************)
(* State of one request                                                    *)
(***************************************************************************)
VARIABLES
  handlerKind,    \* "stream" (src/api/hello.ts) or "redirect" (src/unnamed/part_000)
  req,            \* the request: method and query parameters id, url
  pc,             \* where the handler stands
  videoId,        \* let videoId / const videoId
  videoTitle,     \* const videoTitle
  actualUrl,      \* const actualUrl (stream handler), const audioUrl (redirect handler)
  audioData,      \* const audioData (redirect handler)
  whisperResponse,\* const whisperResponse: ok, status and body text
  transcription,  \* const transcription
  error,          \* the error the catch block receives
  file,           \* the temporary file at outputPath (stream handler)
  trace,          \* the calls made to collaborators, in order
  responses,      \* the responses sent with res.status(..).json(..), in order
  inflight,       \* requests served at the same time: pc, videoId, outputPath
  issued,         \* the values randomUUID has returned so far
  fileLog         \* the file-system calls made: by which request, on which path

\* the state of the requests served at the same time
concurrentVars == << inflight, issued, fileLog >>

\* the state of the one request that Spec follows through a handler
handlerVars ==
  << handlerKind, req, pc, videoId, videoTitle, actualUrl, audioData,
     whisperResponse, transcription, error, file, trace, responses >>

vars == << handlerVars, concurrentVars >>

Nothing == [ nothing |-> TRUE ]

\* one call to a collaborator
Call(op, arg) == [ op |-> op, arg |-> arg ]
\* the network and stream calls of the two handlers
ExternalOps ==
  { "getInfo", "ytdl", "oembed", "audioApi", "audioDownload", "whisper" }
\* the file-system calls of the stream handler
FileOps == { "createWriteStream", "createReadStream", "unlinkSync" }

Count(op) == Cardinality({ i \in 1..Len(trace) : trace[i].op = op })

\* a property of a JSON object: left out when the value is undefined
Prop(name, v) == IF v = Undefined THEN << >> ELSE name :> v

\* res.status(status).json(body)
Respond(status, body) ==
  responses' = Append(responses, [ status |-> status, body |-> body ])

\* throw inside the try block: control goes to the catch block
Throw(e) == /\ pc' = "catch"
            /\ error' = e

\* how many requests are served at the same time
NumRequests == 2
Requests == 1..NumRequests
\* how many values randomUUID can return
NumUuids == 3
Uuids == { <<"u">> \o toString(n) : n \in 1..NumUuids }
\* a request that has not reached line 54 yet
NotStarted(id) == [ pc |-> "start", videoId |-> id, outputPath |-> Undefined ]

Init ==
  /\ handlerKind \in { "stream", "redirect" }
  /\ req \in [ method : Methods, id : IdParams, url : UrlParams ]
  /\ pc = "start"
  /\ videoId = Undefined
  /\ videoTitle = Undefined
  /\ actualUrl = Undefined
  /\ audioData = Nothing
  /\ whisperResponse = Nothing
  /\ transcription = Nothing
  /\ error = NoError
  /\ file = "absent"
  /\ trace = << >>
  /\ responses = << >>
  /\ inflight = [ r \in Requests |-> NotStarted(IdX) ]
  /\ issued = { }
  /\ fileLog = { }

(***************************************************************************)
(* src/api/hello.ts: handler                                               *)
(***************************************************************************)
\* as resolveVideoId, but the url parameter itself stands in for the id
resolveVideoIdRaw(query) ==
  IF Falsy(query.id) /\ ~Falsy(query.url)
  THEN query.url
  ELSE query.id

\* lines 34-41: the id parameter, else the id extracted from the url parameter
resolveVideoId(query) ==
  IF Falsy(query.id) /\ ~Falsy(query.url)
  THEN extractYouTubeId(query.url)
  ELSE query.id

\* lines 29-55
StreamStart ==
  /\ handlerKind = "stream"
  /\ pc = "start"
  /\ IF req.method # "GET"
     THEN /\ Respond(405, [ error |-> "Method not allowed" ])
          /\ pc' = "done"
          /\ UNCHANGED videoId
     ELSE /\ videoId' = resolveVideoId(req)
          /\ IF Falsy(resolveVideoId(req))
             THEN /\ Respond(400, [ error |-> "Missing or invalid YouTube video ID. Use ?id=VIDEO_ID or ?url=YOUTUBE_URL" ])
                  /\ pc' = "done"
             ELSE /\ pc' = "getInfo"
                  /\ UNCHANGED responses
  /\ UNCHANGED << concurrentVars, whisperResponse, audioData, handlerKind, req, videoTitle, actualUrl, transcription,
                  error, file, trace >>

\* lines 59-61: await ytdl.getInfo(videoId)
StreamGetInfo ==
  /\ handlerKind = "stream"
  /\ pc = "getInfo"
  /\ trace' = Append(trace, Call("getInfo", videoId))
  /\ \/ \E e \in Rejections("metadata") :
          /\ Throw(e)
          /\ UNCHANGED << videoTitle, actualUrl >>
     \/ \E t \in { Title, Undefined }, u \in { standardUrl(videoId), Undefined } :
          /\ videoTitle' = t
          /\ actualUrl' = u
          /\ pc' = "download"
          /\ UNCHANGED error
  /\ UNCHANGED << concurrentVars, whisperResponse, audioData, handlerKind, req, videoId, transcription, file, responses >>

\* as StreamOpen, but the wait of lines 76-79 is left out
StreamOpenNoAwait ==
  /\ handlerKind = "stream"
  /\ pc = "download"
  /\ trace' = trace \o << Call("createWriteStream", << >>),
                          Call("ytdl", standardUrl(videoId)) >>
  /\ file' = "writing"
  /\ pc' = "upload"
  /\ UNCHANGED << concurrentVars, whisperResponse, audioData, handlerKind, req, videoId, videoTitle, actualUrl,
                  transcription, error, responses >>

\* lines 67-73: createWriteStream(outputPath); ytdl(standardUrl, ..).pipe(outputStream)
StreamOpen ==
  /\ handlerKind = "stream"
  /\ pc = "download"
  /\ trace' = trace \o << Call("createWriteStream", << >>),
                          Call("ytdl", standardUrl(videoId)) >>
  /\ file' = "writing"
  /\ pc' = "awaitDownload"
  /\ UNCHANGED << concurrentVars, whisperResponse, audioData, handlerKind, req, videoId, videoTitle, actualUrl,
                  transcription, error, responses >>

\* lines 76-79: outputStream emits 'finish': the promise resolves
StreamFinish ==
  /\ handlerKind = "stream"
  /\ pc = "awaitDownload"
  /\ file' = "written"
  /\ pc' = "upload"
  /\ UNCHANGED << concurrentVars, whisperResponse, audioData, handlerKind, req, videoId, videoTitle, actualUrl,
                  transcription, error, trace, responses >>

\* lines 76-79: outputStream emits 'error': the promise rejects
StreamWriteError ==
  /\ handlerKind = "stream"
  /\ pc = "awaitDownload"
  /\ \E e \in Rejections("acquisition") : Throw(e)
  /\ file' \in { "absent", "partial" }
  /\ UNCHANGED << concurrentVars, whisperResponse, audioData, handlerKind, req, videoId, videoTitle, actualUrl,
                  transcription, trace, responses >>

\* lines 70-79: the ytdl stream emits 'error'.  Nothing listens to it and pipe
\* does not forward it to outputStream: the exception is uncaught, and the
\* process ends, or (a host that survives it) the promise is never settled
StreamSourceError ==
  /\ handlerKind = "stream"
  /\ pc = "awaitDownload"
  /\ pc' \in { "crashed", "hung" }
  /\ file' = "partial"
  /\ UNCHANGED << concurrentVars, whisperResponse, audioData, handlerKind, req, videoId, videoTitle, actualUrl,
                  transcription, error, trace, responses >>

\* as whisperError, but the body text is left out of the message
whisperErrorNoBody(response) ==
  Err("transcription", "Whisper API error: ", response.status, "")

\* new Error(`Whisper API error: ${whisperResponse.status} - ${errorText}`)
whisperError(response) ==
  Err("transcription", "Whisper API error: ", response.status, response.text)

\* lines 84-104: createReadStream(outputPath), the POST, the answer
StreamUpload ==
  /\ handlerKind = "stream"
  /\ pc = "upload"
  /\ trace' = trace \o << Call("createReadStream", << >>), Call("whisper", << >>) >>
  /\ \/ \E e \in Rejections("transcription") :
          /\ Throw(e)
          /\ UNCHANGED << whisperResponse, transcription >>
     \/ \E st \in BadStatus, errorText \in ErrorTexts :
          /\ whisperResponse' = [ ok |-> FALSE, status |-> st, text |-> errorText ]
          /\ Throw(whisperError(whisperResponse'))
          /\ UNCHANGED transcription
     \/ \E t \in Transcriptions :
          /\ whisperResponse' = [ ok |-> TRUE, status |-> 200, text |-> "json" ]
          /\ transcription' = t
          /\ pc' = "finish"
          /\ UNCHANGED error
  /\ UNCHANGED << concurrentVars, audioData, handlerKind, req, videoId, videoTitle, actualUrl, file,
                  responses >>

\* lines 114-119 and 139-144: unlinkSync(outputPath); what it throws is caught
unlinkResult(f) == IF f = "absent" THEN { "absent" } ELSE { "deleted", f }

\* as StreamRespond, but without the cleanup of lines 114-119
StreamRespondNoUnlink ==
  /\ handlerKind = "stream"
  /\ pc = "finish"
  /\ Respond(200,
       [ success |-> TRUE,
         video |-> Prop("id", videoId) @@ Prop("title", videoTitle)
                     @@ Prop("url", IF Falsy(actualUrl) THEN standardUrl(videoId)
                                    ELSE actualUrl),
         transcript |-> Prop("full", transcription.text)
                     @@ Prop("formatted", formatTranscript(transcription))
                     @@ IF "segments" \in DOMAIN transcription
                        THEN "segments" :> transcription.segments ELSE << >> ])
  /\ pc' = "done"
  /\ UNCHANGED << concurrentVars, whisperResponse, audioData, handlerKind, req, videoId, videoTitle, actualUrl,
                  transcription, error, file, trace >>

\* as StreamRespond, but without the try/catch around unlinkSync: what it
\* throws goes to the catch block of the handler
StreamRespondUnguarded ==
  /\ handlerKind = "stream"
  /\ pc = "finish"
  /\ trace' = Append(trace, Call("unlinkSync", << >>))
  /\ file' \in unlinkResult(file)
  /\ IF file' = "deleted"
     THEN /\ Respond(200,
               [ success |-> TRUE,
                 video |-> Prop("id", videoId) @@ Prop("title", videoTitle)
                             @@ Prop("url", IF Falsy(actualUrl) THEN standardUrl(videoId)
                                            ELSE actualUrl),
                 transcript |-> Prop("full", transcription.text)
                             @@ Prop("formatted", formatTranscript(transcription))
                             @@ IF "segments" \in DOMAIN transcription
                                THEN "segments" :> transcription.segments ELSE << >> ])
          /\ pc' = "done"
          /\ UNCHANGED error
     ELSE /\ Throw(Err("cleanup", "unlink failed", 0, ""))
          /\ UNCHANGED responses
  /\ UNCHANGED << concurrentVars, whisperResponse, audioData, handlerKind, req, videoId, videoTitle, actualUrl,
                  transcription >>

\* lines 106-134
StreamRespond ==
  /\ handlerKind = "stream"
  /\ pc = "finish"
  /\ trace' = Append(trace, Call("unlinkSync", << >>))
  /\ file' \in unlinkResult(file)
  /\ Respond(200,
       [ success |-> TRUE,
         video |-> Prop("id", videoId) @@ Prop("title", videoTitle)
                     @@ Prop("url", IF Falsy(actualUrl) THEN standardUrl(videoId)
                                    ELSE actualUrl),
         transcript |-> Prop("full", transcription.text)
                     @@ Prop("formatted", formatTranscript(transcription))
                     @@ IF "segments" \in DOMAIN transcription
                        THEN "segments" :> transcription.segments ELSE << >> ])
  /\ pc' = "done"
  /\ UNCHANGED << concurrentVars, whisperResponse, audioData, handlerKind, req, videoId, videoTitle, actualUrl,
                  transcription, error >>

\* as StreamCatch, but without the cleanup of lines 139-144
StreamCatchNoUnlink ==
  /\ handlerKind = "stream"
  /\ pc = "catch"
  /\ Respond(500, [ error |-> errorMessage(error) ])
  /\ pc' = "done"
  /\ UNCHANGED << concurrentVars, whisperResponse, audioData, handlerKind, req, videoId, videoTitle, actualUrl,
                  transcription, error, file, trace >>

\* lines 136-149
StreamCatch ==
  /\ handlerKind = "stream"
  /\ pc = "catch"
  /\ trace' = Append(trace, Call("unlinkSync", << >>))
  /\ file' \in unlinkResult(file)
  /\ Respond(500, [ error |-> errorMessage(error) ])
  /\ pc' = "done"
  /\ UNCHANGED << concurrentVars, whisperResponse, audioData, handlerKind, req, videoId, videoTitle, actualUrl,
                  transcription, error >>

(***************************************************************************)
(* src/unnamed/part_000: handler                                           *)
(***************************************************************************)
\* as RedirectStart, but without the return in front of res.status(400)
RedirectStartNoReturn ==
  /\ handlerKind = "redirect"
  /\ pc = "start"
  /\ videoId' = req.id
  /\ IF Falsy(req.id)
     THEN Respond(400, [ error |-> "Missing video ID. Use ?id=VIDEO_ID" ])
     ELSE UNCHANGED responses
  /\ pc' = "fetchInfo"
  /\ UNCHANGED << concurrentVars, whisperResponse, audioData, handlerKind, req, videoTitle, actualUrl, transcription,
                  error, file, trace >>

\* lines 7-10: only the id parameter is read
RedirectStart ==
  /\ handlerKind = "redirect"
  /\ pc = "start"
  /\ videoId' = req.id
  /\ IF Falsy(req.id)
     THEN /\ Respond(400, [ error |-> "Missing video ID. Use ?id=VIDEO_ID" ])
          /\ pc' = "done"
     ELSE /\ pc' = "fetchInfo"
          /\ UNCHANGED responses
  /\ UNCHANGED << concurrentVars, whisperResponse, audioData, handlerKind, req, videoTitle, actualUrl, transcription,
                  error, file, trace >>

\* bodies the oEmbed endpoint may answer with
VideoInfos == { [ title |-> Title ], [ title |-> << >> ], [ author_name |-> Title ] }

\* videoInfo.title || 'Unknown Video'
UnknownVideo == <<"U","n","k","n","o","w","n"," ","V","i","d","e","o">>
titleOf(videoInfo) ==
  IF "title" \in DOMAIN videoInfo /\ ~Falsy(videoInfo.title)
  THEN videoInfo.title
  ELSE UnknownVideo

\* as RedirectFetchInfo, but a rejected fetch is tried a second time
RedirectFetchInfoRetry ==
  /\ handlerKind = "redirect"
  /\ pc = "fetchInfo"
  /\ trace' = Append(trace, Call("oembed", standardUrl(videoId)))
  /\ \/ \E e \in Rejections("metadata") :
          /\ error' = e
          /\ pc' = IF Count("oembed") = 0 THEN "fetchInfo" ELSE "catch"
          /\ UNCHANGED videoTitle
     \/ \E st \in BadStatus :
          /\ Throw(Err("metadata", "Failed to fetch video info: ", st, ""))
          /\ UNCHANGED videoTitle
     \/ \E videoInfo \in VideoInfos :
          /\ videoTitle' = titleOf(videoInfo)
          /\ pc' = "fetchAudioUrl"
          /\ UNCHANGED error
  /\ UNCHANGED << concurrentVars, whisperResponse, audioData, handlerKind, req, videoId, actualUrl, transcription, file,
                  responses >>

\* lines 16-26
RedirectFetchInfo ==
  /\ handlerKind = "redirect"
  /\ pc = "fetchInfo"
  /\ trace' = Append(trace, Call("oembed", standardUrl(videoId)))
  /\ \/ \E e \in Rejections("metadata") :
          /\ Throw(e)
          /\ UNCHANGED videoTitle
     \/ \E st \in BadStatus :
          /\ Throw(Err("metadata", "Failed to fetch video info: ", st, ""))
          /\ UNCHANGED videoTitle
     \/ \E videoInfo \in VideoInfos :
          /\ videoTitle' = titleOf(videoInfo)
          /\ pc' = "fetchAudioUrl"
          /\ UNCHANGED error
  /\ UNCHANGED << concurrentVars, whisperResponse, audioData, handlerKind, req, videoId, actualUrl, transcription, file,
                  responses >>

AudioUrl == Https \o <<"c","d","n","/","a",".","m","p","3">>
\* bodies the audio URL service may answer with
AudioDatas ==
  { [ success |-> TRUE, url |-> AudioUrl ], [ success |-> TRUE ],
    [ success |-> FALSE ], [ success |-> FALSE, url |-> AudioUrl ],
    [ url |-> AudioUrl ], [ success |-> TRUE, url |-> << >> ] }

\* as invalidAudioData, but an empty url counts as a url
invalidAudioDataEmptyUrl(d) ==
  \/ "success" \notin DOMAIN d
  \/ ~d.success
  \/ "url" \notin DOMAIN d

\* as invalidAudioData, but only the url is looked at
invalidAudioDataUrlOnly(d) ==
  \/ "url" \notin DOMAIN d
  \/ Falsy(d.url)

\* !audioData.success || !audioData.url
invalidAudioData(d) ==
  \/ "success" \notin DOMAIN d
  \/ ~d.success
  \/ "url" \notin DOMAIN d
  \/ Falsy(d.url)

\* lines 30-46
RedirectFetchAudioUrl ==
  /\ handlerKind = "redirect"
  /\ pc = "fetchAudioUrl"
  /\ trace' = Append(trace, Call("audioApi", standardUrl(videoId)))
  /\ \/ \E e \in Rejections("acquisition") :
          /\ Throw(e)
          /\ UNCHANGED << actualUrl, audioData >>
     \/ \E st \in BadStatus :
          /\ Throw(Err("acquisition", "Failed to get audio URL: ", st, ""))
          /\ UNCHANGED << actualUrl, audioData >>
     \/ \E d \in AudioDatas :
          /\ audioData' = d
          /\ IF invalidAudioData(d)
             THEN /\ Throw(Err("acquisition", "Audio API did not return a valid URL: ",
                               0, "JSON.stringify(audioData)"))
                  /\ UNCHANGED actualUrl
             ELSE /\ actualUrl' = d.url
                  /\ pc' = "downloadAudio"
                  /\ UNCHANGED error
  /\ UNCHANGED << concurrentVars, whisperResponse, handlerKind, req, videoId, videoTitle, transcription, file,
                  responses >>

\* lines 50-57
RedirectDownload ==
  /\ handlerKind = "redirect"
  /\ pc = "downloadAudio"
  /\ trace' = Append(trace, Call("audioDownload", actualUrl))
  /\ \/ \E e \in Rejections("acquisition") : Throw(e)
     \/ \E st \in BadStatus :
          Throw(Err("acquisition", "Failed to download audio: ", st, ""))
     \/ /\ pc' = "upload"
        /\ UNCHANGED error
  /\ UNCHANGED << concurrentVars, whisperResponse, audioData, handlerKind, req, videoId, videoTitle, actualUrl,
                  transcription, file, responses >>

\* lines 61-80: the file is sent as `${videoId}.mp3`
RedirectUpload ==
  /\ handlerKind = "redirect"
  /\ pc = "upload"
  /\ trace' = Append(trace, Call("whisper", videoId \o <<".","m","p","3">>))
  /\ \/ \E e \in Rejections("transcription") :
          /\ Throw(e)
          /\ UNCHANGED << whisperResponse, transcription >>
     \/ \E st \in BadStatus, errorText \in ErrorTexts :
          /\ whisperResponse' = [ ok |-> FALSE, status |-> st, text |-> errorText ]
          /\ Throw(whisperError(whisperResponse'))
          /\ UNCHANGED transcription
     \/ \E t \in Transcriptions :
          /\ whisperResponse' = [ ok |-> TRUE, status |-> 200, text |-> "json" ]
          /\ transcription' = t
          /\ pc' = "finish"
          /\ UNCHANGED error
  /\ UNCHANGED << concurrentVars, audioData, handlerKind, req, videoId, videoTitle, actualUrl, file,
                  responses >>

\* lines 83-106
RedirectRespond ==
  /\ handlerKind = "redirect"
  /\ pc = "finish"
  /\ Respond(200,
       [ success |-> TRUE,
         video |-> Prop("id", videoId) @@ Prop("title", videoTitle)
                     @@ Prop("url", standardUrl(videoId)),
         transcript |-> Prop("full", transcription.text)
                     @@ Prop("formatted", formatTranscript(transcription))
                     @@ (IF "segments" \in DOMAIN transcription
                         THEN "segments" :> transcription.segments ELSE << >>)
                     @@ Prop("source", <<"w","h","i","s","p","e","r">>) ])
  /\ pc' = "done"
  /\ UNCHANGED << concurrentVars, whisperResponse, audioData, handlerKind, req, videoId, videoTitle, actualUrl,
                  transcription, error, file, trace >>

\* as RedirectCatch, but the error body also carries what was gathered so far
RedirectCatchLeaky ==
  /\ handlerKind = "redirect"
  /\ pc = "catch"
  /\ Respond(500, [ error |-> errorMessage(error),
                    video |-> Prop("id", videoId) @@ Prop("title", videoTitle) ])
  /\ pc' = "done"
  /\ UNCHANGED << concurrentVars, whisperResponse, audioData, handlerKind, req, videoId, videoTitle, actualUrl,
                  transcription, error, file, trace >>

\* lines 108-113
RedirectCatch ==
  /\ handlerKind = "redirect"
  /\ pc = "catch"
  /\ Respond(500, [ error |-> errorMessage(error) ])
  /\ pc' = "done"
  /\ UNCHANGED << concurrentVars, whisperResponse, audioData, handlerKind, req, videoId, videoTitle, actualUrl,
                  transcription, error, file, trace >>

\* the steps of the two handlers
HandlerNext ==
  \/ StreamStart
  \/ StreamGetInfo
  \/ StreamOpen
  \/ StreamFinish
  \/ StreamWriteError
  \/ StreamSourceError
  \/ StreamUpload
  \/ StreamRespond
  \/ StreamCatch
  \/ RedirectStart
  \/ RedirectFetchInfo
  \/ RedirectFetchAudioUrl
  \/ RedirectDownload
  \/ RedirectUpload
  \/ RedirectRespond
  \/ RedirectCatch

\* the host ends the invocation (its time limit is reached) while the handler
\* is suspended at an await of lines 59, 76-79 or 87 with no error thrown.
\* The handler registers nothing for that (no listener on req or res, no
\* AbortSignal passed on, no finally): none of its lines runs again.  A
\* client that disconnects changes nothing in the handler, which goes on
\* with the steps above.
HostAbort ==
  /\ handlerKind = "stream"
  /\ pc \in { "getInfo", "awaitDownload", "upload" }
  /\ pc' = "aborted"
  /\ UNCHANGED << concurrentVars, whisperResponse, audioData, handlerKind, req, videoId,
                  videoTitle, actualUrl, transcription, error, file, trace,
                  responses >>

Next == HandlerNext \/ HostAbort

Spec == Init /\ [][Next]_vars

(***************************************************************************)
(* src/api/hello.ts: handler, several requests served at the same time.    *)
(* Each request runs the steps of the handler that name outputPath; the    *)
(* steps of different requests interleave at every await.                  *)
(***************************************************************************)
\* randomUUID(): a version 4 UUID, taken never to return a value twice
randomUUID == Uuids \ issued

TmpDir == <<"/","t","m","p">>
\* path.join(dir, name)
pathJoin(dir, name) == dir \o <<"/">> \o name
\* `youtube-audio-${x}.mp3`
audioFileName(x) ==
  <<"y","o","u","t","u","b","e","-","a","u","d","i","o","-">> \o x
    \o <<".","m","p","3">>

\* a file-system call of request r on its outputPath
FileCall(r, op) ==
  fileLog' = fileLog \cup { [ by |-> r, op |-> op, path |-> inflight[r].outputPath ] }
\* request r moves on to one of the given places
Goto(r, places) ==
  \E p \in places : inflight' = [ inflight EXCEPT ![r].pc = p ]

\* as ConcurrentStart, but the file is named after the video
ConcurrentStartByVideo(r) ==
  /\ inflight[r].pc = "start"
  /\ \E uniqueId \in randomUUID :
       /\ issued' = issued \cup { uniqueId }
       /\ inflight' = [ inflight EXCEPT
            ![r].pc = "getInfo",
            ![r].outputPath = pathJoin(TmpDir, audioFileName(inflight[r].videoId)) ]
  /\ UNCHANGED << fileLog, handlerVars >>

\* lines 53-55: uniqueId and outputPath
ConcurrentStart(r) ==
  /\ inflight[r].pc = "start"
  /\ \E uniqueId \in randomUUID :
       /\ issued' = issued \cup { uniqueId }
       /\ inflight' = [ inflight EXCEPT
            ![r].pc = "getInfo",
            ![r].outputPath = pathJoin(TmpDir, audioFileName(uniqueId)) ]
  /\ UNCHANGED << fileLog, handlerVars >>

\* lines 59-61: await ytdl.getInfo, which resolves or is rejected
ConcurrentGetInfo(r) ==
  /\ inflight[r].pc = "getInfo"
  /\ Goto(r, { "download", "catch" })
  /\ UNCHANGED << issued, fileLog, handlerVars >>

\* lines 67-73: createWriteStream(outputPath) and the pipe into it
ConcurrentOpen(r) ==
  /\ inflight[r].pc = "download"
  /\ FileCall(r, "createWriteStream")
  /\ Goto(r, { "awaitDownload" })
  /\ UNCHANGED << issued, handlerVars >>

\* lines 76-79: the write stream finishes or fails
ConcurrentAwait(r) ==
  /\ inflight[r].pc = "awaitDownload"
  /\ Goto(r, { "upload", "catch" })
  /\ UNCHANGED << issued, fileLog, handlerVars >>

\* lines 84-104: createReadStream(outputPath) and the POST
ConcurrentUpload(r) ==
  /\ inflight[r].pc = "upload"
  /\ FileCall(r, "createReadStream")
  /\ Goto(r, { "finish", "catch" })
  /\ UNCHANGED << issued, handlerVars >>

\* lines 114-134: unlinkSync(outputPath) and the 200 response
ConcurrentRespond(r) ==
  /\ inflight[r].pc = "finish"
  /\ FileCall(r, "unlinkSync")
  /\ Goto(r, { "done" })
  /\ UNCHANGED << issued, handlerVars >>

\* lines 136-148: unlinkSync(outputPath) and the 500 response
ConcurrentCatch(r) ==
  /\ inflight[r].pc = "catch"
  /\ FileCall(r, "unlinkSync")
  /\ Goto(r, { "done" })
  /\ UNCHANGED << issued, handlerVars >>

\* GET requests for the same video, to the stream handler, not yet started
InitConcurrent ==
  /\ Init
  /\ handlerKind = "stream"
  /\ req = [ method |-> "GET", id |-> IdX, url |-> Undefined ]

NextConcurrent ==
  \E r \in Requests :
    \/ ConcurrentStart(r)
    \/ ConcurrentGetInfo(r)
    \/ ConcurrentOpen(r)
    \/ ConcurrentAwait(r)
    \/ ConcurrentUpload(r)
    \/ ConcurrentRespond(r)
    \/ ConcurrentCatch(r)

SpecConcurrent == InitConcurrent /\ [][NextConcurrent]_vars

(***************************************************************************)
(* Properties                                                              *)
(***************************************************************************)
ErrorBody(r) == DOMAIN r.body = { "error" }
SuccessBody(r) ==
  /\ DOMAIN r.body = { "success", "video", "transcript" }
  /\ r.body.success
Called(op) == Count(op) > 0
\* the request names no video: no id, and no url or one without an id in it
NoVideoNamed ==
  /\ Falsy(req.id)
  /\ (Falsy(req.url) \/ extractYouTubeId(req.url) = Null)
\* the handler got past the validation of the id
PastValidation == pc # "start" /\ ~Falsy(videoId)

\* C1 (as stated): every request that names no video is answered with
\* status 400 and an {error} body, and no call to a collaborator is made
\* for it, before or after the response.
ClaimC1_AsStated ==
  NoVideoNamed =>
    /\ trace = << >>
    /\ pc # "start" =>
         /\ pc = "done"
         /\ Len(responses) = 1
         /\ responses[1].status = 400
         /\ ErrorBody(responses[1])

\* C1 (amended): a request that names no video is answered with an {error}
\* body and no call to a collaborator is made for it; the status is 400,
\* except that the stream handler answers a request whose method is not GET
\* with 405 before it looks at the parameters.
ClaimC1 ==
  NoVideoNamed =>
    /\ trace = << >>
    /\ pc # "start" =>
         /\ pc = "done"
         /\ Len(responses) = 1
         /\ ErrorBody(responses[1])
         /\ responses[1].status =
              IF handlerKind = "stream" /\ req.method # "GET" THEN 405 ELSE 400

WitnessC1 ==
  /\ handlerKind = "stream"
  /\ req.method = "GET"
  /\ req.id = << >>
  /\ req.url = NotAVideoUrl
  /\ pc = "done"
  /\ Len(responses) = 1
  /\ responses[1].status = 400
  /\ trace = << >>

\* C2: in the stream handler, once the id is validated, unlinkSync is never
\* called twice, and it has been called exactly once when the handler has
\* returned, whether with the transcript or with an error.
ClaimC2 ==
  (handlerKind = "stream" /\ PastValidation) =>
    /\ Count("unlinkSync") <= 1
    /\ pc = "done" => Count("unlinkSync") = 1

\* the POST to the transcription service was rejected after the file was
\* opened for reading, and the file was unlinked once
WitnessC2 ==
  /\ handlerKind = "stream"
  /\ pc = "done"
  /\ error.stage = "transcription"
  /\ Called("createReadStream")
  /\ Count("unlinkSync") = 1
  /\ file = "deleted"

\* the calls that belong to the stages after the given one
LaterOps(stage) ==
  IF stage = "metadata"
  THEN { "createWriteStream", "ytdl", "audioApi", "audioDownload",
         "createReadStream", "whisper" }
  ELSE IF stage = "acquisition"
  THEN { "createReadStream", "whisper" }
  ELSE { }

TitleMissing == videoTitle \in { Undefined, UnknownVideo }

\* C4 (as stated): success: true is sent only when every stage succeeded,
\* metadata with its title field included; after a failure the body is
\* exactly {error: message}.
ClaimC4_AsStated ==
  \A i \in 1..Len(responses) :
    /\ "success" \in DOMAIN responses[i].body =>
         /\ error = NoError
         /\ transcription # Nothing
         /\ ~TitleMissing
    /\ error # NoError => ErrorBody(responses[i])

\* the calls of the stages of each handler
StageOps ==
  IF handlerKind = "stream"
  THEN { "getInfo", "ytdl", "whisper" }
  ELSE { "oembed", "audioApi", "audioDownload", "whisper" }

\* C4 (amended): success: true is sent only when the metadata call, the audio
\* acquisition and the transcription succeeded, where a metadata answer
\* without a title is no failure (the redirect handler then says
\* 'Unknown Video', the stream handler leaves the title out); after a failure
\* the body is exactly {error: message}.
ClaimC4 ==
  \A i \in 1..Len(responses) :
    /\ "success" \in DOMAIN responses[i].body =>
         /\ SuccessBody(responses[i])
         /\ responses[i].status = 200
         /\ error = NoError
         /\ \A op \in StageOps : Called(op)
         /\ handlerKind = "stream" => file # "writing"
         /\ handlerKind = "redirect" => ~invalidAudioData(audioData)
         /\ transcription # Nothing
         /\ responses[i].body.transcript.full = transcription.text
    /\ error # NoError => ErrorBody(responses[i])
    /\ ErrorBody(responses[i]) \/ SuccessBody(responses[i])

\* a failed download in the redirect handler, answered with {error} alone
WitnessC4 ==
  /\ handlerKind = "redirect"
  /\ pc = "done"
  /\ error.stage = "acquisition"
  /\ Called("audioDownload")
  /\ Len(responses) = 1
  /\ ErrorBody(responses[1])

\* C5: never more than one response is sent for a request; none is sent
\* before the handler returns, and one has been sent when it has returned.
ClaimC5 ==
  /\ Len(responses) <= 1
  /\ pc = "done" <=> Len(responses) = 1

\* the handler returned from its catch block with its one response
WitnessC5 ==
  /\ pc = "done"
  /\ error # NoError
  /\ Len(responses) = 1
  /\ responses[1].status = 500

\* the request gives no id, and a video URL of a known shape with id token
\* IdX, with or without parameters or path segments after it
UrlOfKnownShape == Falsy(req.id) /\ req.url \in KnownUrls(IdX)

\* C6: a GET request to the stream handler without id whose url is a video
\* URL of a known shape is resolved to exactly the id token of that URL,
\* whatever follows the token, and the pipeline goes on with that id.
ClaimC6 ==
  (handlerKind = "stream" /\ req.method = "GET" /\ UrlOfKnownShape /\ pc # "start") =>
    /\ videoId = IdX
    /\ responses = << >> \/ responses[1].status # 400

\* exactly 11 characters of [A-Za-z0-9_-]
ValidId(v) == Len(v) = IdLen /\ \A k \in 1..Len(v) : v[k] \in IdChar

\* C7: every call to a collaborator is made for a video id of exactly 11
\* characters of [A-Za-z0-9_-]; a request that yields no such id is rejected
\* with no call made.
ClaimC7 ==
  /\ (\E i \in 1..Len(trace) : trace[i].op \in ExternalOps) => ValidId(videoId)
  /\ (pc = "done" /\ req.method = "GET" /\ ~ValidId(videoId)) =>
       /\ trace = << >>
       /\ responses[1].status = 400

\* the times formatTime is applied to: the boundaries of the segments of the
\* transcription received
TimesReceived ==
  IF transcription = Nothing \/ "segments" \notin DOMAIN transcription THEN { }
  ELSE { transcription.segments[i].start : i \in 1..Len(transcription.segments) }
         \cup { transcription.segments[i].end : i \in 1..Len(transcription.segments) }

DigitValue(c) ==
  CHOOSE n \in 0..9 : <<"0","1","2","3","4","5","6","7","8","9">>[n + 1] = c
\* the number a string of decimal digits denotes
RECURSIVE Decimal(_)
Decimal(ds) ==
  IF ds = << >> THEN 0
  ELSE 10 * Decimal(SubSeq(ds, 1, Len(ds) - 1)) + DigitValue(ds[Len(ds)])
AllDigits(ds) == \A k \in 1..Len(ds) : ds[k] \in Digit

\* C8 (as stated): for every time t >= 0, formatTime(t) is HH:MM:SS with
\* HH = floor(t/3600), MM = floor((t mod 3600)/60), SS = floor(t mod 60),
\* each of exactly two digits.
ClaimC8_AsStated ==
  \A t \in TimesReceived :
    LET f == formatTime(t) IN
    /\ Len(f) = 8
    /\ f[3] = ":" /\ f[6] = ":"
    /\ AllDigits(SubSeq(f, 1, 2)) /\ Decimal(SubSeq(f, 1, 2)) = t \div 3600000
    /\ AllDigits(SubSeq(f, 4, 5)) /\ Decimal(SubSeq(f, 4, 5)) = (t % 3600000) \div 60000
    /\ AllDigits(SubSeq(f, 7, 8)) /\ Decimal(SubSeq(f, 7, 8)) = (t % 60000) \div 1000

\* C8 (amended): for every time t >= 0, formatTime(t) is H:MM:SS with
\* H = floor(t/3600) in decimal, MM = floor((t mod 3600)/60) and
\* SS = floor(t mod 60) of exactly two digits each; H has exactly two digits
\* (zero-padded) when t is below 100 hours, and as many as the number needs,
\* without a leading zero, from 100 hours on.
ClaimC8 ==
  \A t \in TimesReceived :
    LET f == formatTime(t)
        n == Len(f)
    IN
    /\ n >= 8
    /\ f[n - 5] = ":" /\ f[n - 2] = ":"
    /\ AllDigits(SubSeq(f, 1, n - 6))
    /\ Decimal(SubSeq(f, 1, n - 6)) = t \div 3600000
    /\ AllDigits(SubSeq(f, n - 4, n - 3))
    /\ Decimal(SubSeq(f, n - 4, n - 3)) = (t % 3600000) \div 60000
    /\ AllDigits(SubSeq(f, n - 1, n))
    /\ Decimal(SubSeq(f, n - 1, n)) = (t % 60000) \div 1000
    /\ t < 360000000 => n = 8
    /\ n > 8 => f[1] # "0"

\* a transcript was sent whose first segment runs from 3600 s to 3661.7 s,
\* shown as 01:00:00 and 01:01:01
WitnessC8 ==
  /\ pc = "done"
  /\ Len(responses) = 1
  /\ responses[1].status = 200
  /\ "segments" \in DOMAIN transcription
  /\ Len(transcription.segments) >= 1
  /\ transcription.segments[1].start = 3600000
  /\ transcription.segments[1].end = 3661700
  /\ SubSeq(responses[1].body.transcript.formatted, 1, 22)
       = <<"[","0","1",":","0","0",":","0","0"," ","-"," ",
           "0","1",":","0","1",":","0","1","]"," ">>

\* length of the block of one segment: the brackets, the two times, " - ",
\* the blank after the bracket, the text
BlockLen(seg) ==
  Len(formatTime(seg.start)) + Len(formatTime(seg.end)) + 6 + Len(seg.text)
\* where the block of segment i starts in the formatted transcript
RECURSIVE BlockStart(_, _)
BlockStart(segs, i) ==
  IF i = 1 THEN 1 ELSE BlockStart(segs, i - 1) + BlockLen(segs[i - 1]) + 2

\* C9: the formatted transcript sent for N >= 1 segments is N blocks
\* "[start - end] text", the i-th made from the i-th segment alone, two line
\* feeds between consecutive blocks and nothing before the first or after
\* the last.
ClaimC9 ==
  \A r \in 1..Len(responses) :
    ("success" \in DOMAIN responses[r].body
       /\ "segments" \in DOMAIN transcription
       /\ Len(transcription.segments) >= 1) =>
      LET segs == transcription.segments
          N == Len(segs)
          f == responses[r].body.transcript.formatted
      IN
      /\ responses[r].body.transcript.segments = segs
      /\ Len(f) = BlockStart(segs, N) + BlockLen(segs[N]) - 1
      /\ \A i \in 1..N :
           LET b == BlockStart(segs, i)
               e == b + BlockLen(segs[i]) - 1
               tl == Len(formatTime(segs[i].start))
           IN
           /\ f[b] = "["
           /\ SubSeq(f, b + 1, b + tl) = formatTime(segs[i].start)
           /\ SubSeq(f, b + tl + 1, b + tl + 3) = <<" ","-"," ">>
           /\ SubSeq(f, b + tl + 4, e - Len(segs[i].text) - 2) = formatTime(segs[i].end)
           /\ SubSeq(f, e - Len(segs[i].text) - 1, e - Len(segs[i].text)) = <<"]"," ">>
           /\ SubSeq(f, e - Len(segs[i].text) + 1, e) = segs[i].text
           /\ i < N => SubSeq(f, e + 1, e + 2) = <<"\n","\n">>

\* a transcript of two segments was sent
WitnessC9 ==
  /\ pc = "done"
  /\ Len(responses) = 1
  /\ responses[1].status = 200
  /\ "segments" \in DOMAIN transcription
  /\ Len(transcription.segments) = 2
  /\ Len(responses[1].body.transcript.formatted) > BlockLen(transcription.segments[1])

\* the transcription service answered with no segment
ZeroSegments ==
  /\ transcription # Nothing
  /\ ("segments" \notin DOMAIN transcription \/ transcription.segments = << >>)

\* C10: when the transcription service answers with zero segments (the list
\* empty or missing) the request succeeds with formatted = '' and full = the
\* text of the answer.
ClaimC10 ==
  (ZeroSegments /\ pc = "done") =>
    /\ Len(responses) = 1
    /\ responses[1].status = 200
    /\ SuccessBody(responses[1])
    /\ "formatted" \in DOMAIN responses[1].body.transcript
    /\ responses[1].body.transcript.formatted = << >>
    /\ "full" \in DOMAIN responses[1].body.transcript
    /\ responses[1].body.transcript.full = transcription.text

\* an answer without a segments field was turned into a success response
WitnessC10 ==
  /\ pc = "done"
  /\ transcription = [ text |-> FullText ]
  /\ Len(responses) = 1
  /\ responses[1].status = 200
  /\ responses[1].body.transcript.formatted = << >>

\* C11: when the transcription service answers with a status that is not a
\* success, the request ends with one 500 response whose body is {error}
\* alone, the message being "Whisper API error: ", the status and the body
\* text of that answer, unchanged; no transcript was read or sent.
ClaimC11 ==
  (whisperResponse # Nothing /\ ~whisperResponse.ok) =>
    /\ pc \in { "catch", "done" }
    /\ transcription = Nothing
    /\ pc = "done" =>
         /\ Len(responses) = 1
         /\ responses[1].status = 500
         /\ ErrorBody(responses[1])
         /\ responses[1].body.error.msg = "Whisper API error: "
         /\ responses[1].body.error.status = whisperResponse.status
         /\ responses[1].body.error.text = whisperResponse.text

\* the service answered 403 with the text "quota exceeded" and the request
\* ended with the 500 response
WitnessC11 ==
  /\ pc = "done"
  /\ whisperResponse = [ ok |-> FALSE, status |-> 403, text |-> "quota exceeded" ]
  /\ Len(responses) = 1
  /\ responses[1].status = 500

\* the answer of the audio URL service names no usable audio URL
NoAudioUrl ==
  /\ audioData # Nothing
  /\ \/ "success" \notin DOMAIN audioData
     \/ audioData.success = FALSE
     \/ "url" \notin DOMAIN audioData
     \/ audioData.url = << >>

\* C12: in the redirect handler the audio download is issued only after the
\* audio URL service answered with a body whose success flag is true and
\* which carries a url, and it goes to that url; an answer with a
\* non-success status, an unreadable body or a false or missing success flag
\* ends the request with an acquisition error and without a download.
ClaimC12 ==
  /\ Called("audioDownload") =>
       /\ ~NoAudioUrl
       /\ audioData # Nothing
       /\ Count("audioApi") = 1
       /\ \E i \in 1..Len(trace) :
            /\ trace[i] = Call("audioDownload", audioData.url)
            /\ \E j \in 1..(i - 1) : trace[j].op = "audioApi"
  /\ NoAudioUrl =>
       /\ ~Called("audioDownload")
       /\ error.stage = "acquisition"
       /\ error.msg = "Audio API did not return a valid URL: "
  /\ (handlerKind = "redirect" /\ Called("audioApi") /\ audioData = Nothing) =>
       /\ ~Called("audioDownload")
       /\ error.stage = "acquisition"
  /\ (handlerKind = "redirect" /\ error.stage = "acquisition" /\ pc = "done") =>
       /\ Len(responses) = 1
       /\ responses[1].status = 500
       /\ ErrorBody(responses[1])

\* the audio URL service answered with a non-success status: the request
\* ended with an error and nothing was downloaded
WitnessC12 ==
  /\ handlerKind = "redirect"
  /\ pc = "done"
  /\ error.msg = "Failed to get audio URL: "
  /\ audioData = Nothing
  /\ ~Called("audioDownload")
  /\ Len(responses) = 1

\* C13: in the stream handler the temporary file is opened for reading only
\* after the write stream has finished: while the download is writing, or
\* after it broke off, no read stream exists and the upload has not begun.
ClaimC13 ==
  handlerKind = "stream" =>
    /\ Called("createReadStream") => file \in { "written", "deleted" }
    /\ pc = "upload" => file = "written"
    /\ file \in { "writing", "partial" } =>
         ~Called("createReadStream") /\ ~Called("whisper")

\* the file was written to its end and then opened for the upload
WitnessC13 ==
  /\ handlerKind = "stream"
  /\ pc = "finish"
  /\ file = "written"
  /\ Count("createReadStream") = 1

\* C14: in the stream handler the wait for the download is settled by
\* whatever ends the download (the write stream finishing, the write stream
\* failing, the source stream failing), so a request the handler has begun
\* to process, not yet answered and not ended by the host can always take a
\* further step: none waits forever.
ClaimC14 ==
  (handlerKind = "stream" /\ pc \notin { "start", "aborted" }) =>
    \/ pc = "done" /\ Len(responses) = 1
    \/ ENABLED HandlerNext

\* unlinkSync was called and threw: the file is not there to delete (ENOENT)
\* or it is still there after the call
UnlinkFailed == Called("unlinkSync") /\ file # "deleted"

\* C15: in the stream handler, when unlinkSync has thrown, the response is
\* still the one the request had earned: with a transcription received, the
\* 200 success object carrying its text; otherwise the 500 {error} with the
\* message of the error that the try block threw, never a cleanup error.
ClaimC15 ==
  (handlerKind = "stream" /\ pc = "done" /\ UnlinkFailed) =>
    /\ Len(responses) = 1
    /\ IF transcription # Nothing
       THEN /\ responses[1].status = 200
            /\ SuccessBody(responses[1])
            /\ responses[1].body.transcript = 
                 Prop("full", transcription.text)
                   @@ Prop("formatted", formatTranscript(transcription))
                   @@ IF "segments" \in DOMAIN transcription
                      THEN "segments" :> transcription.segments ELSE << >>
            /\ error = NoError
       ELSE /\ responses[1].status = 500
            /\ responses[1].body = [ error |-> errorMessage(error) ]
            /\ error.stage \in { "metadata", "acquisition", "transcription" }

\* the transcript was received, unlinkSync threw with the file still on
\* disk, and the 200 response was sent
WitnessC15 ==
  /\ handlerKind = "stream"
  /\ pc = "done"
  /\ Called("unlinkSync")
  /\ file = "written"
  /\ transcription # Nothing
  /\ Len(responses) = 1
  /\ responses[1].status = 200

\* the calls made to the network and stream collaborators, in order
ExternalCalls == SelectSeq(trace, LAMBDA c : c.op \in ExternalOps)
\* a collaborator has failed: an error was thrown, or the source stream broke
Failed == error # NoError \/ pc \in { "crashed", "hung" }

\* C16: within one request no collaborator (metadata, audio URL, download
\* or audio stream, transcription) is ever called twice, and no step taken
\* after a collaborator has failed adds a call to any of them.
ClaimC16 ==
  /\ [](\A op \in ExternalOps : Count(op) <= 1)
  /\ [][Failed => ExternalCalls' = ExternalCalls]_vars

\* the download of the redirect handler failed after the metadata and the
\* audio URL were fetched: each was called once, the transcription never
WitnessC16 ==
  /\ handlerKind = "redirect"
  /\ pc = "done"
  /\ error.stage = "acquisition"
  /\ Count("oembed") = 1
  /\ Count("audioApi") = 1
  /\ Count("audioDownload") = 1
  /\ Count("whisper") = 0

\* a response with status 200 or 500 has been sent
Answered ==
  \E i \in 1..Len(responses) : responses[i].status \in { 200, 500 }

\* C17: in the stream handler, when a 200 or a 500 response has been sent,
\* unlinkSync was called on the temporary file before it and was the last
\* thing done to the file, and no write to the file is still under way: a
\* file that unlinkSync deleted is not created again.
ClaimC17 ==
  (handlerKind = "stream" /\ Answered) =>
    /\ Count("unlinkSync") = 1
    /\ trace[Len(trace)].op = "unlinkSync"
    /\ file # "writing"

\* the transcript was sent with status 200 and the file is deleted
WitnessC17 ==
  /\ handlerKind = "stream"
  /\ Len(responses) = 1
  /\ responses[1].status = 200
  /\ trace[Len(trace)].op = "unlinkSync"
  /\ file = "deleted"

\* C18: whatever the interleaving of the requests served at the same time,
\* no two of them have the same outputPath, and no path has file-system
\* calls (create, read, delete) from two different requests.
ClaimC18 ==
  /\ \A r, q \in Requests :
       (r # q /\ inflight[r].outputPath # Undefined) =>
         inflight[r].outputPath # inflight[q].outputPath
  /\ \A a, b \in fileLog : a.path = b.path => a.by = b.by

\* two requests for the same video: the first is still writing its file
\* when the second has read and deleted its own
WitnessC18 ==
  /\ inflight[1].pc = "awaitDownload"
  /\ inflight[2].pc = "done"
  /\ inflight[1].videoId = inflight[2].videoId
  /\ \E a \in fileLog : a.by = 1 /\ a.op = "createWriteStream"
  /\ \E b \in fileLog : b.by = 2 /\ b.op = "createReadStream"
  /\ \E c \in fileLog : c.by = 2 /\ c.op = "unlinkSync"

\* C19: when the host has ended a request of the stream handler after its
\* temporary file was created, the file is deleted: either unlinkSync has
\* removed it, or a step of the handler that leads to the cleanup can still
\* be taken.
ClaimC19 ==
  (handlerKind = "stream" /\ pc = "aborted" /\ Called("createWriteStream")) =>
    \/ file = "deleted"
    \/ ENABLED HandlerNext

====
